---- MODULE Spec2Model ----
(***************************************************************************)
(* Response interpretation and consensus aggregation of the bullshit       *)
(* detector (src/app.py): the /ask pipeline queries each provider, labels  *)
(* every response text and reduces the labels to one verdict with a        *)
(* confidence.  Texts are sequences of one-character strings, so that the  *)
(* substring and word-boundary searches of the code are computed on the    *)
(* characters themselves.                                                  *)
(***************************************************************************)
EXTENDS Integers, Sequences, FiniteSets, TLC

VARIABLES responses, judgments, policy_limited_responses, uncertain_responses,
          result, pc, status, call, normalized, config_file, discovery

vars == <<responses, judgments, policy_limited_responses, uncertain_responses,
          result, pc, status, call, normalized, config_file, discovery>>

(* ---------------------------- bounds ----------------------------------- *)

\* number of providers a request queries (ask queries four)
NumProviders == 4

\* number of fragments a composed response text is built from
MaxFrags == 3

\* number of entries of the larger responses dicts
MaxWide == 8

\* number of entries of the largest responses dicts, of fewer kinds
MaxMany == 16

\* number of entries of the responses dicts whose insertion order varies
MaxOrder == 3

\* length of the raw texts given to strip_markdown
MaxMarkdownLen == 4

(* ---------------------------- characters ------------------------------- *)

UpperLetters == <<"A","B","C","D","E","F","G","H","I","J","K","L","M",
                  "N","O","P","Q","R","S","T","U","V","W","X","Y","Z">>

LowerLetters == <<"a","b","c","d","e","f","g","h","i","j","k","l","m",
                  "n","o","p","q","r","s","t","u","v","w","x","y","z">>

Digits == {"0","1","2","3","4","5","6","7","8","9"}

Letters == {UpperLetters[i] : i \in 1..26} \cup {LowerLetters[i] : i \in 1..26}

\* the backquote character, which a string literal cannot hold
Backtick == "backquote"

\* the characters response texts are written in
Alphabet == Letters \cup Digits
            \cup {" ", "_", "-", "'", ".", ",", "\n", "*", "#", Backtick}

\* str.lower() and str.upper(), one character at a time
LowerChar == [c \in Alphabet |->
                IF \E i \in 1..26 : UpperLetters[i] = c
                THEN LowerLetters[CHOOSE i \in 1..26 : UpperLetters[i] = c]
                ELSE c]

UpperChar == [c \in Alphabet |->
                IF \E i \in 1..26 : LowerLetters[i] = c
                THEN UpperLetters[CHOOSE i \in 1..26 : LowerLetters[i] = c]
                ELSE c]

lower(s) == [i \in 1..Len(s) |-> LowerChar[s[i]]]

upper(s) == [i \in 1..Len(s) |-> UpperChar[s[i]]]

\* \w of the re module on the characters of Alphabet
IsWordChar(c) == c \in Letters \cup Digits \cup {"_"}

\* the literal pat occurs in s at position i
MatchAt(s, pat, i) ==
    /\ i >= 1
    /\ i + Len(pat) - 1 <= Len(s)
    /\ \A j \in 1..Len(pat) : s[i + j - 1] = pat[j]

\* Python's  pat in s
Contains(s, pat) == \E i \in 1..(Len(s) - Len(pat) + 1) : MatchAt(s, pat, i)

\* \b between s[k] and s[k+1]; outside the text counts as a non-word character
WordBoundary(s, k) ==
    LET before == k >= 1 /\ k <= Len(s) /\ IsWordChar(s[k])
        after  == k + 1 >= 1 /\ k + 1 <= Len(s) /\ IsWordChar(s[k + 1])
    IN  before # after

\* re.search(r"\bpat\b", s) for a literal pat
SearchWord(s, pat) ==
    \E i \in 1..(Len(s) - Len(pat) + 1) :
        /\ MatchAt(s, pat, i)
        /\ WordBoundary(s, i - 1)
        /\ WordBoundary(s, i + Len(pat) - 1)

\* re.search(r"\bhead<hb>.*<tb>tail\b", s): '.' does not match a newline;
\* headEnd and tailStart say whether a \b follows head and precedes tail
SearchWordGap(s, head, headEnd, tail, tailStart) ==
    \E i \in 1..(Len(s) - Len(head) + 1) :
        /\ MatchAt(s, head, i)
        /\ WordBoundary(s, i - 1)
        /\ headEnd => WordBoundary(s, i + Len(head) - 1)
        /\ \E j \in (i + Len(head))..(Len(s) - Len(tail) + 1) :
              /\ MatchAt(s, tail, j)
              /\ \A k \in (i + Len(head))..(j - 1) : s[k] # "\n"
              /\ tailStart => WordBoundary(s, j - 1)
              /\ WordBoundary(s, j + Len(tail) - 1)

(* ---------------------------- response normalizer ----------------------- *)

\* Python's None as a response content: a value that is no text
None == <<"None">>

\* \s of the re module on the characters of Alphabet
IsSpace(c) == c \in {" ", "\n"}

\* where the lazy (.*?) ends: the first position from start on at which
\* delim occurs, with no newline before it unless dotall; 0 if there is none
ClosingAt(s, delim, start, dotall) ==
    LET ends == {j \in start..(Len(s) - Len(delim) + 1) :
                    /\ MatchAt(s, delim, j)
                    /\ dotall \/ \A k \in start..(j - 1) : s[k] # "\n"}
    IN  IF ends = {} THEN 0 ELSE CHOOSE j \in ends : \A k \in ends : j <= k

\* re.sub of delim(.*?)delim from position i on: every leftmost, non-overlapping
\* match is replaced by its inner text if keep, by nothing otherwise
RECURSIVE sub_delimited(_, _, _, _, _)
sub_delimited(s, i, delim, keep, dotall) ==
    IF i > Len(s) THEN <<>>
    ELSE LET j == IF MatchAt(s, delim, i)
                  THEN ClosingAt(s, delim, i + Len(delim), dotall)
                  ELSE 0
         IN  IF j # 0
             THEN (IF keep THEN SubSeq(s, i + Len(delim), j - 1) ELSE <<>>)
                  \o sub_delimited(s, j + Len(delim), delim, keep, dotall)
             ELSE <<s[i]>> \o sub_delimited(s, i + 1, delim, keep, dotall)

\* the end of the longest run of characters satisfying the test from i on
\* (i - 1 if s[i] does not satisfy it)
RECURSIVE RunEnd(_, _, _)
RunEnd(s, i, hashes) ==
    IF i <= Len(s) /\ (IF hashes THEN s[i] = "#" ELSE IsSpace(s[i]))
    THEN RunEnd(s, i + 1, hashes)
    ELSE i - 1

\* re.sub(r'^#+\s+', '', s, flags=re.MULTILINE) from position i on
RECURSIVE sub_headers(_, _)
sub_headers(s, i) ==
    IF i > Len(s) THEN <<>>
    ELSE LET line_start == i = 1 \/ s[i - 1] = "\n"
             hash_end   == RunEnd(s, i, TRUE)
             space_end  == RunEnd(s, hash_end + 1, FALSE)
         IN  IF line_start /\ hash_end >= i /\ space_end > hash_end
             THEN sub_headers(s, space_end + 1)
             ELSE <<s[i]>> \o sub_headers(s, i + 1)

strip_markdown(text) ==
    IF text = None \/ text = <<>> THEN text
    ELSE LET bold    == sub_delimited(text, 1, <<"*","*">>, TRUE, FALSE)
             italic  == sub_delimited(bold, 1, <<"*">>, TRUE, FALSE)
             headers == sub_headers(italic, 1)
             blocks  == sub_delimited(headers, 1, <<Backtick,Backtick,Backtick>>, FALSE, TRUE)
         IN  sub_delimited(blocks, 1, <<Backtick>>, TRUE, FALSE)

(* ---------------------------- opt-out detector -------------------------- *)

\* the literal patterns of recusal_patterns (all but the one with '.*')
recusal_patterns == <<
    <<"r","e","c","u","s","e">>,
    <<"p","a","r","a","d","o","x">>,
    <<"s","e","l","f","-","r","e","f","e","r","e","n","t","i","a","l">>,
    <<"c","a","n","n","o","t"," ","b","e"," ","d","e","f","i","n","i","t","i","v","e","l","y"," ","l","a","b","e","l","e","d">>,
    <<"i","n","h","e","r","e","n","t","l","y"," ","u","n","a","n","s","w","e","r","a","b","l","e">>,
    <<"c","a","t","e","g","o","r","y"," ","e","r","r","o","r">>,
    <<"u","n","a","n","s","w","e","r","a","b","l","e"," ","b","y"," ","d","e","s","i","g","n">> >>

\* variant: the patterns are searched in the content as written, not lower-cased
detect_recusal_case_sensitive(content) ==
    \/ \E p \in 1..Len(recusal_patterns) : SearchWord(content, recusal_patterns[p])
    \/ SearchWordGap(content, <<"p","h","i","l","o","s","o","p","h","i","c","a","l">>, TRUE, <<"o","b","j","e","c","t","i","o","n">>, TRUE)

detect_recusal(content) ==
    LET content_lower == lower(content)
    IN  \/ \E p \in 1..Len(recusal_patterns) :
              SearchWord(content_lower, recusal_patterns[p])
        \/ SearchWordGap(content_lower, <<"p","h","i","l","o","s","o","p","h","i","c","a","l">>, TRUE,
                         <<"o","b","j","e","c","t","i","o","n">>, TRUE)

\* the literal patterns of policy_patterns in detect_policy_limitation; the
\* alternation (don't|do not) is written out as two literals
policy_patterns == <<
    <<"p","o","l","i","c","y","_","l","i","m","i","t","e","d">>,
    <<"i"," ","d","o","n","'","t"," ","f","e","e","l"," ","c","o","m","f","o","r","t","a","b","l","e">>,
    <<"i"," ","d","o"," ","n","o","t"," ","f","e","e","l"," ","c","o","m","f","o","r","t","a","b","l","e">>,
    <<"n","o","t"," ","a","p","p","r","o","p","r","i","a","t","e"," ","t","o"," ","d","i","s","c","u","s","s">>,
    <<"r","e","c","o","m","m","e","n","d"," ","c","o","n","s","u","l","t","i","n","g">>,
    <<"w","o","u","l","d"," ","s","u","g","g","e","s","t"," ","r","e","f","e","r","r","i","n","g"," ","t","o">>,
    <<"p","l","e","a","s","e"," ","c","o","n","s","u","l","t"," ","o","f","f","i","c","i","a","l"," ","s","o","u","r","c","e","s">>,
    <<"i","t","'","s"," ","i","m","p","o","r","t","a","n","t"," ","t","o"," ","r","e","l","y"," ","o","n">>,
    <<"i","'","m"," ","n","o","t"," ","c","o","m","f","o","r","t","a","b","l","e"," ","s","p","e","c","u","l","a","t","i","n","g">> >>

detect_policy_limitation(content) ==
    LET content_lower == lower(content)
    IN  \/ \E p \in 1..Len(policy_patterns) :
              SearchWord(content_lower, policy_patterns[p])
        \/ SearchWordGap(content_lower, <<"i"," ","a","p","o","l","o","g","i","z","e">>, FALSE,
                         <<"c","a","n","n","o","t">>, FALSE)

(* ---------------------------- text classifier --------------------------- *)

uncertainty_patterns == <<
    <<"c","a","n","n","o","t"," ","b","e"," ","d","e","f","i","n","i","t","i","v","e","l","y"," ","a","n","s","w","e","r","e","d">>,
    <<"c","o","m","p","l","e","x"," ","i","s","s","u","e">>,
    <<"n","o","t"," ","e","n","o","u","g","h"," ","e","v","i","d","e","n","c","e">>,
    <<"r","e","m","a","i","n","s"," ","d","i","s","p","u","t","e","d">>,
    <<"d","i","f","f","i","c","u","l","t"," ","t","o"," ","d","e","t","e","r","m","i","n","e">>,
    <<"w","o","u","l","d"," ","r","e","q","u","i","r","e"," ","m","o","r","e"," ","i","n","f","o","r","m","a","t","i","o","n">>,
    <<"c","a","n","n","o","t"," ","b","e"," ","a","n","s","w","e","r","e","d"," ","w","i","t","h"," ","a"," ","s","i","m","p","l","e">>,
    <<"i","n","s","u","f","f","i","c","i","e","n","t"," ","e","v","i","d","e","n","c","e">>,
    <<"u","n","c","e","r","t","a","i","n">>,
    <<"d","e","p","e","n","d","s"," ","o","n">>,
    <<"a","m","b","i","g","u","o","u","s">>,
    <<"u","n","c","l","e","a","r">>,
    <<"d","e","b","a","t","e","d">>,
    <<"c","o","n","t","r","o","v","e","r","s","i","a","l">> >>

\* any(pattern in text for pattern in uncertainty_patterns)
uncertain_flag(text) ==
    \E p \in 1..Len(uncertainty_patterns) : Contains(text, uncertainty_patterns[p])

\* "FALSE" in content and not ("NOT FALSE" in content or "ISN'T FALSE" in content)
false_asserted(content) ==
    /\ Contains(content, <<"F","A","L","S","E">>)
    /\ ~ (Contains(content, <<"N","O","T"," ","F","A","L","S","E">>) \/ Contains(content, <<"I","S","N","'","T"," ","F","A","L","S","E">>))

\* "TRUE" in content and not ("NOT TRUE" in content or "ISN'T TRUE" in content)
true_asserted(content) ==
    /\ Contains(content, <<"T","R","U","E">>)
    /\ ~ (Contains(content, <<"N","O","T"," ","T","R","U","E">>) \/ Contains(content, <<"I","S","N","'","T"," ","T","R","U","E">>))

\* what one iteration of the loop does with a successful, non-empty response:
\* the label it stores and the list it appends the model to
Judged(label, list) == [judgment |-> label, appended |-> list]

\* variant: an asserted FALSE or TRUE is taken without looking at the
\* uncertainty flag
judge_response_verdict_first(raw) ==
    IF detect_recusal(raw) THEN Judged("RECUSE", "none")
    ELSE IF detect_policy_limitation(raw) THEN Judged("POLICY_LIMITED", "policy")
    ELSE
      LET content   == upper(raw)
          text      == lower(raw)
          uncertain == uncertain_flag(text)
      IN  IF false_asserted(content) THEN Judged("FALSE", "none")
          ELSE IF true_asserted(content) THEN Judged("TRUE", "none")
          ELSE Judged("UNCERTAIN", "uncertain")

\* variant: without the final else, a response with no token and no
\* uncertainty phrase is left without a label
judge_response_no_default(raw) ==
    IF detect_recusal(raw) THEN Judged("RECUSE", "none")
    ELSE IF detect_policy_limitation(raw) THEN Judged("POLICY_LIMITED", "policy")
    ELSE
      LET content   == upper(raw)
          text      == lower(raw)
          uncertain == uncertain_flag(text)
      IN  IF false_asserted(content)
          THEN IF uncertain THEN Judged("UNCERTAIN", "uncertain")
                            ELSE Judged("FALSE", "none")
          ELSE IF true_asserted(content)
          THEN IF uncertain THEN Judged("UNCERTAIN", "uncertain")
                            ELSE Judged("TRUE", "none")
          ELSE IF Contains(content, <<"U","N","C","E","R","T","A","I","N">>) \/ uncertain
          THEN Judged("UNCERTAIN", "uncertain")
          ELSE Judged("skipped", "none")

\* variant: the policy check runs before the recusal check
judge_response_policy_first(raw) ==
    IF detect_policy_limitation(raw) THEN Judged("POLICY_LIMITED", "policy")
    ELSE IF detect_recusal(raw) THEN Judged("RECUSE", "none")
    ELSE
      LET content   == upper(raw)
          text      == lower(raw)
          uncertain == uncertain_flag(text)
      IN  IF false_asserted(content)
          THEN IF uncertain THEN Judged("UNCERTAIN", "uncertain")
                            ELSE Judged("FALSE", "none")
          ELSE IF true_asserted(content)
          THEN IF uncertain THEN Judged("UNCERTAIN", "uncertain")
                            ELSE Judged("TRUE", "none")
          ELSE IF Contains(content, <<"U","N","C","E","R","T","A","I","N">>) \/ uncertain
          THEN Judged("UNCERTAIN", "uncertain")
          ELSE Judged("UNCERTAIN", "uncertain")

\* variant: an asserted TRUE is looked for before an asserted FALSE
judge_response_true_first(raw) ==
    IF detect_recusal(raw) THEN Judged("RECUSE", "none")
    ELSE IF detect_policy_limitation(raw) THEN Judged("POLICY_LIMITED", "policy")
    ELSE
      LET content   == upper(raw)
          text      == lower(raw)
          uncertain == uncertain_flag(text)
      IN  IF true_asserted(content)
          THEN IF uncertain THEN Judged("UNCERTAIN", "uncertain")
                            ELSE Judged("TRUE", "none")
          ELSE IF false_asserted(content)
          THEN IF uncertain THEN Judged("UNCERTAIN", "uncertain")
                            ELSE Judged("FALSE", "none")
          ELSE Judged("UNCERTAIN", "uncertain")

judge_response(raw) ==
    IF detect_recusal(raw) THEN Judged("RECUSE", "none")
    ELSE IF detect_policy_limitation(raw) THEN Judged("POLICY_LIMITED", "policy")
    ELSE
      LET content   == upper(raw)
          text      == lower(raw)
          uncertain == uncertain_flag(text)
      IN  IF false_asserted(content)
          THEN IF uncertain THEN Judged("UNCERTAIN", "uncertain")
                            ELSE Judged("FALSE", "none")
          ELSE IF true_asserted(content)
          THEN IF uncertain THEN Judged("UNCERTAIN", "uncertain")
                            ELSE Judged("TRUE", "none")
          ELSE IF Contains(content, <<"U","N","C","E","R","T","A","I","N">>) \/ uncertain
          THEN Judged("UNCERTAIN", "uncertain")
          ELSE Judged("UNCERTAIN", "uncertain")

(* ---------------------------- responses --------------------------------- *)

\* one entry of the responses dict; the dict is the sequence of its entries
\* in insertion order, with pairwise distinct models
Response(m, s, c) == [model |-> m, success |-> s, content |-> c]

\* variant: only response["success"] is looked at
is_judged_success_only(response) == response.success

\* not (response["success"] and response["content"]) makes the loop skip
is_judged(response) ==
    /\ response.success
    /\ response.content # None
    /\ response.content # <<>>

(* ---------------------------- exact fractions --------------------------- *)

\* the confidence is a fraction num/den with den > 0
Frac(n, d) == [num |-> n, den |-> d]

FracLeq(a, b) == a.num * b.den <= b.num * a.den

FracMin(a, b) == IF FracLeq(a, b) THEN a ELSE b

FracMax(a, b) == IF FracLeq(a, b) THEN b ELSE a

FracAdd(a, b) == Frac(a.num * b.den + b.num * a.den, a.den * b.den)

FracSub(a, b) == Frac(a.num * b.den - b.num * a.den, a.den * b.den)

\* round(x): to the nearest integer, a half to the even neighbour
round(x) ==
    LET q == x.num \div x.den
        r == x.num - q * x.den
    IN  IF 2 * r < x.den THEN q
        ELSE IF 2 * r > x.den THEN q + 1
        ELSE IF q % 2 = 0 THEN q ELSE q + 1

(* ---------------------------- consensus aggregator ---------------------- *)

\* the for loop over responses.items(): what each entry is judged as
loop_judged_break(resps) ==
    [i \in 1..Len(resps) |->
        IF \A k \in 1..i : is_judged(resps[k])
        THEN judge_response(resps[i].content)
        ELSE Judged("skipped", "none")]

loop_judged(resps) ==
    [i \in 1..Len(resps) |->
        IF is_judged(resps[i]) THEN judge_response(resps[i].content)
                               ELSE Judged("skipped", "none")]

\* the judgments dict the loop leaves behind
loop_judgments(resps, judged) ==
    LET keys == {i \in 1..Len(resps) : judged[i].judgment # "skipped"}
    IN  [m \in {resps[i].model : i \in keys} |->
            judged[CHOOSE i \in keys : resps[i].model = m].judgment]

\* the models the loop appended to the list named list, in loop order
RECURSIVE loop_list(_, _, _)
loop_list(resps, judged, list) ==
    IF resps = <<>> THEN <<>>
    ELSE LET n    == Len(resps)
             rest == loop_list(SubSeq(resps, 1, n - 1), judged, list)
         IN  IF judged[n].appended = list THEN Append(rest, resps[n].model)
                                          ELSE rest

\* the three locals the loop fills
analysis_loop(resps) ==
    LET judged == loop_judged(resps)
    IN  [judgments                |-> loop_judgments(resps, judged),
         policy_limited_responses |-> loop_list(resps, judged, "policy"),
         uncertain_responses      |-> loop_list(resps, judged, "uncertain")]

\* variant: only POLICY_LIMITED is dropped, RECUSE stays among the judgments
substantive_judgments_keep_recuse(judgs) ==
    [k \in {m \in DOMAIN judgs : judgs[m] # "POLICY_LIMITED"} |-> judgs[k]]

substantive_judgments(judgs) ==
    [k \in {m \in DOMAIN judgs : judgs[m] \notin {"RECUSE", "POLICY_LIMITED"}} |->
        judgs[k]]

judgment_counts(substantive) ==
    [label \in {"TRUE", "FALSE", "UNCERTAIN"} |->
        Cardinality({k \in DOMAIN substantive : substantive[k] = label})]

\* max((TRUE, n), (FALSE, n), (UNCERTAIN, n), key = count): the first maximum
most_common(counts) ==
    IF counts["TRUE"] >= counts["FALSE"] /\ counts["TRUE"] >= counts["UNCERTAIN"]
    THEN "TRUE"
    ELSE IF counts["FALSE"] >= counts["UNCERTAIN"] THEN "FALSE"
    ELSE "UNCERTAIN"

\* variant: UNCERTAIN needs strictly more than a third of the judgments
majority_verdict_strict_third(judgs) ==
    LET substantive  == substantive_judgments(judgs)
        counts       == judgment_counts(substantive)
        total_models == Cardinality(DOMAIN substantive)
        majority     == IF 3 * counts["UNCERTAIN"] > total_models
                           \/ counts["UNCERTAIN"] >= 2
                        THEN "UNCERTAIN"
                        ELSE most_common(counts)
    IN  IF counts["TRUE"] = counts["FALSE"] /\ counts["TRUE"] > 0
        THEN "UNCERTAIN"
        ELSE majority

\* variant: without the override for a tie between TRUE and FALSE
majority_verdict_no_tie_rule(judgs) ==
    LET substantive  == substantive_judgments(judgs)
        counts       == judgment_counts(substantive)
        total_models == Cardinality(DOMAIN substantive)
    IN  IF 3 * counts["UNCERTAIN"] >= total_models \/ counts["UNCERTAIN"] >= 2
        THEN "UNCERTAIN"
        ELSE most_common(counts)

\* variant: the most common label without the UNCERTAIN thresholds
majority_verdict_most_common(judgs) ==
    LET substantive  == substantive_judgments(judgs)
        counts       == judgment_counts(substantive)
    IN  IF counts["TRUE"] = counts["FALSE"] /\ counts["TRUE"] > 0
        THEN "UNCERTAIN"
        ELSE most_common(counts)

majority_verdict(judgs) ==
    LET substantive  == substantive_judgments(judgs)
        counts       == judgment_counts(substantive)
        total_models == Cardinality(DOMAIN substantive)
        majority     == IF 3 * counts["UNCERTAIN"] >= total_models
                           \/ counts["UNCERTAIN"] >= 2
                        THEN "UNCERTAIN"
                        ELSE most_common(counts)
    IN  IF counts["TRUE"] = counts["FALSE"] /\ counts["TRUE"] > 0
        THEN "UNCERTAIN"
        ELSE majority

\* variant: base_confidence + policy_bonus is not capped at 100
confidence_of_uncapped(verdict, counts, total_models, judgs, policy_limited) ==
    IF total_models = 0 THEN Frac(0, 1)
    ELSE
      LET agreement_count == counts[verdict]
      IN  IF verdict = "UNCERTAIN"
          THEN FracMin(Frac(70, 1), Frac(agreement_count * 100, total_models))
          ELSE
            LET policy_aligned ==
                    Cardinality({i \in 1..Len(policy_limited) :
                                    /\ policy_limited[i] \in DOMAIN judgs
                                    /\ judgs[policy_limited[i]] = verdict})
                non_policy_total == total_models - Len(policy_limited)
                base_confidence ==
                    Frac((agreement_count - policy_aligned) * 100, non_policy_total)
                policy_bonus == Frac(policy_aligned * 20, total_models)
                agreed ==
                    IF non_policy_total > 0
                    THEN FracAdd(base_confidence, policy_bonus)
                    ELSE Frac(agreement_count * 90, total_models)
                uncertainty_penalty == Frac(counts["UNCERTAIN"] * 30, total_models)
            IN  IF counts["UNCERTAIN"] > 0
                THEN FracMax(Frac(40, 1), FracSub(agreed, uncertainty_penalty))
                ELSE agreed

\* variant: the confidence of an UNCERTAIN verdict is not capped at 70
confidence_of_uncertain_share(verdict, counts, total_models, judgs, policy_limited) ==
    IF total_models = 0 THEN Frac(0, 1)
    ELSE
      LET agreement_count == counts[verdict]
      IN  IF verdict = "UNCERTAIN"
          THEN Frac(agreement_count * 100, total_models)
          ELSE
            LET policy_aligned ==
                    Cardinality({i \in 1..Len(policy_limited) :
                                    /\ policy_limited[i] \in DOMAIN judgs
                                    /\ judgs[policy_limited[i]] = verdict})
                non_policy_total == total_models - Len(policy_limited)
                base_confidence ==
                    Frac((agreement_count - policy_aligned) * 100, non_policy_total)
                policy_bonus == Frac(policy_aligned * 20, total_models)
                agreed ==
                    IF non_policy_total > 0
                    THEN FracMin(Frac(100, 1), FracAdd(base_confidence, policy_bonus))
                    ELSE Frac(agreement_count * 90, total_models)
                uncertainty_penalty == Frac(counts["UNCERTAIN"] * 30, total_models)
            IN  IF counts["UNCERTAIN"] > 0
                THEN FracMax(Frac(40, 1), FracSub(agreed, uncertainty_penalty))
                ELSE agreed

\* variant: the factor 90 of the all-policy-limited branch is used on the main branch
confidence_of_ninety(verdict, counts, total_models, judgs, policy_limited) ==
    IF total_models = 0 THEN Frac(0, 1)
    ELSE
      LET agreement_count == counts[verdict]
      IN  IF verdict = "UNCERTAIN"
          THEN FracMin(Frac(70, 1), Frac(agreement_count * 100, total_models))
          ELSE
            LET policy_aligned ==
                    Cardinality({i \in 1..Len(policy_limited) :
                                    /\ policy_limited[i] \in DOMAIN judgs
                                    /\ judgs[policy_limited[i]] = verdict})
                non_policy_total == total_models - Len(policy_limited)
                base_confidence ==
                    Frac((agreement_count - policy_aligned) * 90, non_policy_total)
                policy_bonus == Frac(policy_aligned * 20, total_models)
                agreed ==
                    IF non_policy_total > 0
                    THEN FracMin(Frac(100, 1), FracAdd(base_confidence, policy_bonus))
                    ELSE Frac(agreement_count * 90, total_models)
                uncertainty_penalty == Frac(counts["UNCERTAIN"] * 30, total_models)
            IN  IF counts["UNCERTAIN"] > 0
                THEN FracMax(Frac(40, 1), FracSub(agreed, uncertainty_penalty))
                ELSE agreed

\* variant: the uncertainty penalty is applied without the floor of 40
confidence_of_no_floor(verdict, counts, total_models, judgs, policy_limited) ==
    IF total_models = 0 THEN Frac(0, 1)
    ELSE
      LET agreement_count == counts[verdict]
      IN  IF verdict = "UNCERTAIN"
          THEN FracMin(Frac(70, 1), Frac(agreement_count * 100, total_models))
          ELSE
            LET policy_aligned ==
                    Cardinality({i \in 1..Len(policy_limited) :
                                    /\ policy_limited[i] \in DOMAIN judgs
                                    /\ judgs[policy_limited[i]] = verdict})
                non_policy_total == total_models - Len(policy_limited)
                base_confidence ==
                    Frac((agreement_count - policy_aligned) * 100, non_policy_total)
                policy_bonus == Frac(policy_aligned * 20, total_models)
                agreed ==
                    IF non_policy_total > 0
                    THEN FracMin(Frac(100, 1), FracAdd(base_confidence, policy_bonus))
                    ELSE Frac(agreement_count * 90, total_models)
                uncertainty_penalty == Frac(counts["UNCERTAIN"] * 30, total_models)
            IN  IF counts["UNCERTAIN"] > 0
                THEN FracSub(agreed, uncertainty_penalty)
                ELSE agreed

\* variant: the penalised confidence is floored at 30 instead of 40
confidence_of_floor_thirty(verdict, counts, total_models, judgs, policy_limited) ==
    IF total_models = 0 THEN Frac(0, 1)
    ELSE
      LET agreement_count == counts[verdict]
      IN  IF verdict = "UNCERTAIN"
          THEN FracMin(Frac(70, 1), Frac(agreement_count * 100, total_models))
          ELSE
            LET policy_aligned ==
                    Cardinality({i \in 1..Len(policy_limited) :
                                    /\ policy_limited[i] \in DOMAIN judgs
                                    /\ judgs[policy_limited[i]] = verdict})
                non_policy_total == total_models - Len(policy_limited)
                base_confidence ==
                    Frac((agreement_count - policy_aligned) * 100, non_policy_total)
                policy_bonus == Frac(policy_aligned * 20, total_models)
                agreed ==
                    IF non_policy_total > 0
                    THEN FracMin(Frac(100, 1), FracAdd(base_confidence, policy_bonus))
                    ELSE Frac(agreement_count * 90, total_models)
                uncertainty_penalty == Frac(counts["UNCERTAIN"] * 30, total_models)
            IN  IF counts["UNCERTAIN"] > 0
                THEN FracMax(Frac(30, 1), FracSub(agreed, uncertainty_penalty))
                ELSE agreed

\* the confidence before rounding
confidence_of(verdict, counts, total_models, judgs, policy_limited) ==
    IF total_models = 0 THEN Frac(0, 1)
    ELSE
      LET agreement_count == counts[verdict]
      IN  IF verdict = "UNCERTAIN"
          THEN FracMin(Frac(70, 1), Frac(agreement_count * 100, total_models))
          ELSE
            LET policy_aligned ==
                    Cardinality({i \in 1..Len(policy_limited) :
                                    /\ policy_limited[i] \in DOMAIN judgs
                                    /\ judgs[policy_limited[i]] = verdict})
                non_policy_total == total_models - Len(policy_limited)
                base_confidence ==
                    Frac((agreement_count - policy_aligned) * 100, non_policy_total)
                policy_bonus == Frac(policy_aligned * 20, total_models)
                agreed ==
                    IF non_policy_total > 0
                    THEN FracMin(Frac(100, 1), FracAdd(base_confidence, policy_bonus))
                    ELSE Frac(agreement_count * 90, total_models)
                uncertainty_penalty == Frac(counts["UNCERTAIN"] * 30, total_models)
            IN  IF counts["UNCERTAIN"] > 0
                THEN FracMax(Frac(40, 1), FracSub(agreed, uncertainty_penalty))
                ELSE agreed

confidence_level_of(confidence) ==
    IF FracLeq(Frac(90, 1), confidence) THEN "VERY HIGH"
    ELSE IF FracLeq(Frac(70, 1), confidence) THEN "HIGH"
    ELSE IF FracLeq(Frac(50, 1), confidence) THEN "MEDIUM"
    ELSE IF FracLeq(Frac(30, 1), confidence) THEN "LOW"
    ELSE "VERY LOW"

\* what a call of analyze_responses ends with
Returned(v) == [outcome |-> "returned", value |-> v]

Raised(e) == [outcome |-> "raised", value |-> e]

\* variant: the plain majority vote over all labels, opt-outs included
aggregate_plain_majority(loop) ==
    LET judgs  == loop.judgments
        order  == <<"TRUE", "FALSE", "UNCERTAIN", "RECUSE", "POLICY_LIMITED">>
        tally  == [label \in {order[i] : i \in 1..5} |->
                      Cardinality({k \in DOMAIN judgs : judgs[k] = label})]
        best   == CHOOSE i \in 1..5 :
                      /\ \A j \in 1..5 : tally[order[i]] >= tally[order[j]]
                      /\ \A j \in 1..(i - 1) : tally[order[j]] < tally[order[i]]
        total  == Cardinality(DOMAIN judgs)
        confidence == Frac(tally[order[best]] * 100, total)
    IN  IF total = 0
        THEN Raised("UnboundLocalError")
        ELSE Returned([verdict                  |-> order[best],
                       confidence_percentage    |-> round(confidence),
                       confidence_level         |-> confidence_level_of(confidence),
                       model_judgments          |-> judgs,
                       policy_limited_responses |-> loop.policy_limited_responses,
                       uncertain_responses      |-> loop.uncertain_responses])

\* the part of analyze_responses after the loop; the final logging call
\* formats agreement_count, a local that is bound only on the
\* total_models # 0 branch
aggregate(loop) ==
    LET judgs          == loop.judgments
        policy_limited == loop.policy_limited_responses
        substantive    == substantive_judgments(judgs)
        counts         == judgment_counts(substantive)
        total_models   == Cardinality(DOMAIN substantive)
        verdict        == majority_verdict(judgs)
        confidence     == confidence_of(verdict, counts, total_models, judgs,
                                        policy_limited)
    IN  IF total_models = 0
        THEN Raised("UnboundLocalError")
        ELSE Returned([verdict                  |-> verdict,
                       confidence_percentage    |-> round(confidence),
                       confidence_level         |-> confidence_level_of(confidence),
                       model_judgments          |-> judgs,
                       policy_limited_responses |-> policy_limited,
                       uncertain_responses      |-> loop.uncertain_responses])

analyze_responses(resps) == aggregate(analysis_loop(resps))


(* ---------------------------- provider queries -------------------------- *)

\* parsed JSON, tagged by type; the text of a string is a sequence of
\* characters, the entries of an object are a record
JNull == [t |-> "null", v |-> 0]

JStr(s) == [t |-> "str", v |-> s]

JInt(n) == [t |-> "int", v |-> n]

JList(items) == [t |-> "list", v |-> items]

JDict(entries) == [t |-> "dict", v |-> entries]

\* the keys of a response path: names and list positions
StrKey(s) == [int |-> FALSE, v |-> s]

IntKey(n) == [int |-> TRUE, v |-> n]

\* an exception with its constructor arguments (messages are strings)
Exc(type, args) == [type |-> type, args |-> args]

NoExc == Exc("none", <<>>)

\* repr of a path key
repr(key) == IF key.int THEN ToString(key.v) ELSE "'" \o key.v \o "'"

\* str(e): empty without arguments; KeyError shows the repr of its key
str(e) ==
    IF e.args = <<>> THEN ""
    ELSE IF e.type = "KeyError" THEN repr(e.args[1])
    ELSE e.args[1]

\* requests.Timeout and its subclasses
IsTimeout(e) == e.type \in {"Timeout", "ConnectTimeout", "ReadTimeout"}

\* bool(value) is False
Falsy(j) ==
    \/ j.t = "null"
    \/ j.t = "int" /\ j.v = 0
    \/ j.t \in {"str", "list", "dict"} /\ j.v = <<>>

\* model_registry.get_value_at_path
RECURSIVE get_value_at_path(_, _)
get_value_at_path(obj, path) ==
    IF path = <<>> THEN Returned(obj)
    ELSE LET key == Head(path)
         IN  IF obj.t = "list"
             THEN IF ~ key.int
                  THEN Raised(Exc("ValueError",
                         <<"invalid literal for int() with base 10: " \o repr(key)>>))
                  ELSE IF key.v < Len(obj.v)
                  THEN get_value_at_path(obj.v[key.v + 1], Tail(path))
                  ELSE Raised(Exc("IndexError", <<"list index out of range">>))
             ELSE IF obj.t = "dict"
             THEN IF key.int \/ obj.v = <<>>
                  THEN Raised(Exc("KeyError", <<key>>))
                  ELSE IF key.v \in DOMAIN obj.v
                  THEN get_value_at_path(obj.v[key.v], Tail(path))
                  ELSE Raised(Exc("KeyError", <<key>>))
             ELSE IF obj.t = "str"
             THEN IF ~ key.int
                  THEN Raised(Exc("TypeError", <<"string indices must be integers">>))
                  ELSE IF key.v < Len(obj.v)
                  THEN get_value_at_path(JStr(<<obj.v[key.v + 1]>>), Tail(path))
                  ELSE Raised(Exc("IndexError", <<"string index out of range">>))
             ELSE Raised(Exc("TypeError", <<"object is not subscriptable">>))

\* strip_markdown on whatever the path led to: a falsy value passes through,
\* re.sub needs a string
strip_markdown_value(j) ==
    IF Falsy(j) THEN Returned(j)
    ELSE IF j.t = "str" THEN Returned(JStr(strip_markdown(j.v)))
    ELSE Raised(Exc("TypeError", <<"expected string or bytes-like object">>))

\* the value as the responses dict holds it
content_value(j) ==
    IF j.t = "null" THEN None ELSE IF j.t = "str" THEN j.v ELSE j

\* model_registry.get_provider_config: the providers dict, by response path
providers ==
    [openai    |-> <<StrKey("choices"), IntKey(0), StrKey("message"), StrKey("content")>>,
     anthropic |-> <<StrKey("content"), IntKey(0), StrKey("text")>>,
     mistral   |-> <<StrKey("choices"), IntKey(0), StrKey("message"), StrKey("content")>>,
     deepseek  |-> <<StrKey("choices"), IntKey(0), StrKey("message"), StrKey("content")>>]

\* providers.get(provider_name): the entry of a known provider; is_none
\* stands for the None any other name gets
get_provider_config(provider_name) ==
    IF provider_name \in DOMAIN providers
    THEN [is_none |-> FALSE, response_path |-> providers[provider_name]]
    ELSE [is_none |-> TRUE, response_path |-> <<>>]

\* the fallback of load_model_config when no config file exists
FallbackModels ==
    [openai    |-> JStr("gpt-4o"),
     anthropic |-> JStr("claude-3-opus-20240229"),
     mistral   |-> JStr("mistral-large-latest"),
     deepseek  |-> JStr("deepseek-chat")]

\* the defaults of model_config.get(provider, default) in get_provider_config
DefaultModels ==
    [openai    |-> JStr("gpt-4o"),
     anthropic |-> JStr("claude-3-5-sonnet-20241022"),
     mistral   |-> JStr("mistral-large-latest"),
     deepseek  |-> JStr("deepseek-chat")]

\* model_registry.load_model_config on the config file: the fallback without
\* a file; json.load fails on a file without content; otherwise every
\* provider's id, None (JNull) for a provider the file does not name
load_model_config(file) ==
    IF ~ file.exists THEN Returned(FallbackModels)
    ELSE IF ~ file.complete
    THEN Raised(Exc("JSONDecodeError", <<"Expecting value: line 1 column 1 (char 0)">>))
    ELSE Returned([p \in DOMAIN providers |->
                      IF p \in DOMAIN file.models THEN JStr(file.models[p])
                                                  ELSE JNull])

\* get_provider_config(provider_name)["model_id"] for a known provider:
\* model_config.get(provider_name, default)
model_id(provider_name, model_config) ==
    IF provider_name \in DOMAIN model_config THEN model_config[provider_name]
    ELSE DefaultModels[provider_name]

\* the dict of a failed query
Failure(provider_name, error) ==
    [success |-> FALSE, content |-> None, model |-> provider_name,
     error |-> error]

\* the try block of query_model: the dict it returns or the exception it
\* raises, for what the configuration, the transport and the provider do
query_model_try(provider_name, outcome) ==
    IF outcome.stage = "config" THEN Raised(outcome.exception)
    ELSE LET config == get_provider_config(provider_name)
         IN  IF config.is_none
             THEN Returned(Failure(provider_name,
                                   "Unknown provider: " \o provider_name))
             ELSE IF outcome.stage = "post" THEN Raised(outcome.exception)
             ELSE IF outcome.status_code # 200
             THEN Returned(Failure(provider_name,
                                   "API returned " \o ToString(outcome.status_code)))
             ELSE IF outcome.json.outcome = "raised"
             THEN Returned(Failure(provider_name,
                                   "Non-JSON response: " \o str(outcome.json.value)))
             ELSE LET found   == get_value_at_path(outcome.json.value,
                                                   config.response_path)
                      content == IF found.outcome = "raised" THEN found
                                 ELSE strip_markdown_value(found.value)
                  IN  IF content.outcome = "returned"
                      THEN Returned([success |-> TRUE,
                                     content |-> content_value(content.value),
                                     model   |-> provider_name,
                                     error   |-> None])
                      ELSE IF content.value.type \in {"KeyError", "IndexError", "TypeError"}
                      THEN Returned(Failure(provider_name,
                                "Malformed response: " \o str(content.value)))
                      ELSE Raised(content.value)

\* query_model: the try block, except requests.Timeout, except Exception
query_model(provider_name, outcome) ==
    LET tried == query_model_try(provider_name, outcome)
    IN  IF tried.outcome = "returned" THEN tried.value
        ELSE IF IsTimeout(tried.value) THEN Failure(provider_name, "Request timeout")
        ELSE Failure(provider_name, str(tried.value))
(* ---------------------------- inputs ------------------------------------ *)

\* the providers in the order ask queries them (the names past the fourth
\* stand for further entries of a larger responses dict)
ProviderNames == <<"openai", "anthropic", "mistral", "deepseek",
                   "provider5", "provider6", "provider7", "provider8",
                   "provider9", "provider10", "provider11", "provider12",
                   "provider13", "provider14", "provider15", "provider16",
                   "provider17", "provider18", "provider19", "provider20",
                   "provider21", "provider22", "provider23", "provider24">>

\* answers as providers give them: the labels the prompt asks for, some
\* wrapped in markdown
SampleTexts == {
    <<"T","R","U","E">>,
    <<"*","*","F","A","L","S","E","*","*">>,
    <<"U","N","C","E","R","T","A","I","N">>,
    <<"#"," ","R","E","C","U","S","E">>,
    <<Backtick,"P","O","L","I","C","Y","_","L","I","M","I","T","E","D",Backtick>> }

\* what query_model returns: a failure, or the content with markdown stripped
QueryResults ==
    {[success |-> FALSE, content |-> None]}
    \cup {[success |-> TRUE, content |-> strip_markdown(t)] :
            t \in SampleTexts \cup {<<>>}}

\* the pieces composed response texts are built from
Fragments == <<
    <<"P","a","r","a","d","o","x">>,
    <<"i","c","a","l">>,
    <<" ">>,
    <<"F","A","L","S","E">>,
    <<"t","r","u","e">>,
    <<"N","O","T"," ">>,
    <<"i","s","n","'","t"," ">>,
    <<"u","n","c","l","e","a","r">>,
    <<"p","o","l","i","c","y","_","l","i","m","i","t","e","d">> >>

RECURSIVE Concat(_)
Concat(fs) == IF fs = <<>> THEN <<>> ELSE Fragments[Head(fs)] \o Concat(Tail(fs))

\* every text of at most MaxFrags fragments
ComposedTexts ==
    {Concat(fs) : fs \in UNION {[1..n -> 1..Len(Fragments)] : n \in 0..MaxFrags}}

\* a full sentence a provider may answer with
SentenceTexts == { <<"T","h","e"," ","a","n","s","w","e","r"," ","i","s"," ","F","A","L","S","E",","," ","t","h","i","s"," ","i","s"," ","n","o","t"," ","t","r","u","e",".">> }

(* ---------------------------- state machine ----------------------------- *)

NoResult == [outcome |-> "none", value |-> "none"]

\* /tmp/model_config.json: absent, just truncated, or written in full with
\* the model ids of the providers a discovery run found
ConfigFile(exists, complete, models) ==
    [exists |-> exists, complete |-> complete, models |-> models]

NoFile == ConfigFile(FALSE, FALSE, <<>>)

\* the background job between two runs
Idle == [pc |-> "idle", models |-> <<>>]

\* no query_model call under study
NoCall == [provider_name |-> "none", outcome |-> "none"]

Init ==
    /\ responses = <<>>
    /\ judgments = <<>>
    /\ policy_limited_responses = <<>>
    /\ uncertain_responses = <<>>
    /\ result = NoResult
    /\ pc = "query"
    /\ status = 0
    /\ call = NoCall
    /\ normalized = <<>>
    /\ config_file = NoFile
    /\ discovery = Idle

\* ask: responses[p] = query_model(p, structured_query), provider by provider
QueryModel ==
    /\ pc = "query"
    /\ Len(responses) < NumProviders
    /\ \E r \in QueryResults :
          responses' = Append(responses,
                              Response(ProviderNames[Len(responses) + 1],
                                       r.success, r.content))
    /\ pc' = IF Len(responses) + 1 = NumProviders THEN "analyze" ELSE "query"
    /\ UNCHANGED <<judgments, policy_limited_responses, uncertain_responses,
                   result, status, call, normalized,
                   config_file, discovery>>

\* ask: analysis = analyze_responses(responses)
AnalyzeResponses ==
    /\ pc = "analyze"
    /\ LET loop == analysis_loop(responses)
       IN  /\ judgments' = loop.judgments
           /\ policy_limited_responses' = loop.policy_limited_responses
           /\ uncertain_responses' = loop.uncertain_responses
           /\ result' = aggregate(loop)
    /\ pc' = "respond"
    /\ UNCHANGED <<responses, status, call, normalized,
                   config_file, discovery>>

\* ask: the JSON answer, or the 500 of the except clause
AskRespond ==
    /\ pc = "respond"
    /\ status' = IF result.outcome = "raised" THEN 500 ELSE 200
    /\ pc' = "done"
    /\ UNCHANGED <<responses, judgments, policy_limited_responses,
                   uncertain_responses, result, call, normalized,
                   config_file, discovery>>

Next == QueryModel \/ AnalyzeResponses \/ AskRespond

Spec == Init /\ [][Next]_vars

\* analyze_responses applied to one provider's composed text
InitText ==
    /\ \E t \in ComposedTexts \cup SentenceTexts :
          responses = <<Response("openai", TRUE, t)>>
    /\ judgments = <<>>
    /\ policy_limited_responses = <<>>
    /\ uncertain_responses = <<>>
    /\ result = NoResult
    /\ pc = "analyze"
    /\ status = 0
    /\ call = NoCall
    /\ normalized = <<>>
    /\ config_file = NoFile
    /\ discovery = Idle

NextText == AnalyzeResponses \/ AskRespond

SpecText == InitText /\ [][NextText]_vars

\* k entries with the same query result
Repeat(r, k) == [i \in 1..k |-> r]

\* a responses dict with the given number of entries of each kind
WideResponses(t, f, u, r, p, x) ==
    LET results == Repeat([success |-> TRUE, content |-> <<"T","R","U","E">>], t)
                   \o Repeat([success |-> TRUE, content |-> <<"F","A","L","S","E">>], f)
                   \o Repeat([success |-> TRUE, content |-> <<"U","N","C","E","R","T","A","I","N">>], u)
                   \o Repeat([success |-> TRUE, content |-> <<"R","E","C","U","S","E">>], r)
                   \o Repeat([success |-> TRUE, content |-> <<"P","O","L","I","C","Y","_","L","I","M","I","T","E","D">>], p)
                   \o Repeat([success |-> FALSE, content |-> None], x)
    IN  [i \in 1..Len(results) |->
            Response(ProviderNames[i], results[i].success, results[i].content)]

\* analyze_responses applied to a dict of up to MaxWide responses, drawn by
\* the number of responses of each kind
InitWide ==
    /\ \E t \in 0..MaxWide : \E f \in 0..(MaxWide - t) :
       \E u \in 0..(MaxWide - t - f) : \E r \in 0..(MaxWide - t - f - u) :
       \E p \in 0..(MaxWide - t - f - u - r) :
       \E x \in 0..(MaxWide - t - f - u - r - p) :
          responses = WideResponses(t, f, u, r, p, x)
    /\ judgments = <<>>
    /\ policy_limited_responses = <<>>
    /\ uncertain_responses = <<>>
    /\ result = NoResult
    /\ pc = "analyze"
    /\ status = 0
    /\ call = NoCall
    /\ normalized = <<>>
    /\ config_file = NoFile
    /\ discovery = Idle

NextWide == AnalyzeResponses \/ AskRespond

SpecWide == InitWide /\ [][NextWide]_vars

\* analyze_responses applied to a dict of up to MaxMany answers, drawn by the
\* number of TRUE, FALSE, UNCERTAIN and POLICY_LIMITED answers
InitMany ==
    /\ \E t \in 0..MaxMany : \E f \in 0..(MaxMany - t) :
       \E u \in 0..(MaxMany - t - f) : \E p \in 0..(MaxMany - t - f - u) :
          responses = WideResponses(t, f, u, 0, p, 0)
    /\ judgments = <<>>
    /\ policy_limited_responses = <<>>
    /\ uncertain_responses = <<>>
    /\ result = NoResult
    /\ pc = "analyze"
    /\ status = 0
    /\ call = NoCall
    /\ normalized = <<>>
    /\ config_file = NoFile
    /\ discovery = Idle

NextMany == AnalyzeResponses \/ AskRespond

SpecMany == InitMany /\ [][NextMany]_vars


\* the characters of raw texts: the markers strip_markdown removes, the
\* whitespace its header pattern reads, and a letter
MarkdownChars == {"*", "#", Backtick, " ", "\n", "a"}

\* every raw text of at most MaxMarkdownLen characters
MarkdownTexts == UNION {[1..n -> MarkdownChars] : n \in 0..MaxMarkdownLen}

\* strip_markdown applied to a raw text, then to its own output
InitStrip ==
    /\ \E t \in MarkdownTexts : normalized = <<t>>
    /\ responses = <<>>
    /\ judgments = <<>>
    /\ policy_limited_responses = <<>>
    /\ uncertain_responses = <<>>
    /\ result = NoResult
    /\ pc = "strip"
    /\ status = 0
    /\ call = NoCall
    /\ config_file = NoFile
    /\ discovery = Idle

\* content = strip_markdown(content), on the latest text
StripMarkdown ==
    /\ pc = "strip"
    /\ Len(normalized) < 3
    /\ normalized' = Append(normalized, strip_markdown(normalized[Len(normalized)]))
    /\ UNCHANGED <<responses, judgments, policy_limited_responses,
                   uncertain_responses, result, pc, status, call,
                   config_file, discovery>>

NextStrip == StripMarkdown

SpecStrip == InitStrip /\ [][NextStrip]_vars

\* what a call of query_model meets
Outcome(stage, exception, status_code, json) ==
    [stage |-> stage, exception |-> exception, status_code |-> status_code,
     json |-> json]

\* a response body in the chat-completions shape, and in the messages shape
ChatBody(content) ==
    JDict([choices |-> JList(<<JDict([message |-> JDict([content |-> content])])>>)])

MessagesBody(text) == JDict([content |-> JList(<<JDict([text |-> text])>>)])

\* response.json() fails
NotJSON == Raised(Exc("JSONDecodeError", <<"Expecting value: line 1 column 1 (char 0)">>))

\* the configuration file cannot be read, the request fails with or without
\* a message, the provider answers with an error status, with a body that
\* is no JSON, or with a JSON body of either shape or of none
TransportOutcomes == <<
    Outcome("config", Exc("JSONDecodeError", <<"Expecting value: line 1 column 1 (char 0)">>), 0, NotJSON),
    Outcome("post", Exc("ReadTimeout", <<"Read timed out. (read timeout=30)">>), 0, NotJSON),
    Outcome("post", Exc("ConnectTimeout", <<"Connection timed out">>), 0, NotJSON),
    Outcome("post", Exc("ConnectionError", <<"Connection refused">>), 0, NotJSON),
    Outcome("post", Exc("MemoryError", <<>>), 0, NotJSON),
    Outcome("response", NoExc, 401, Returned(JDict([error |-> JStr(<<"b","a","d"," ","k","e","y">>)]))),
    Outcome("response", NoExc, 429, NotJSON),
    Outcome("response", NoExc, 500, NotJSON),
    Outcome("response", NoExc, 200, NotJSON),
    Outcome("response", NoExc, 200, Returned(ChatBody(JStr(<<"*","*","T","R","U","E","*","*">>)))),
    Outcome("response", NoExc, 200, Returned(ChatBody(JStr(<<>>)))),
    Outcome("response", NoExc, 200, Returned(ChatBody(JNull))),
    Outcome("response", NoExc, 200, Returned(ChatBody(JInt(5)))),
    Outcome("response", NoExc, 200, Returned(MessagesBody(JStr(<<"#"," ","F","A","L","S","E">>)))),
    Outcome("response", NoExc, 200, Returned(MessagesBody(JNull))),
    Outcome("response", NoExc, 200, Returned(MessagesBody(JList(<<JInt(1)>>)))),
    Outcome("response", NoExc, 200, Returned(JDict([error |-> JStr(<<"o","v","e","r","l","o","a","d","e","d">>)]))),
    Outcome("response", NoExc, 200, Returned(JDict([choices |-> JList(<<>>)]))),
    Outcome("response", NoExc, 200, Returned(JDict([choices |-> JStr(<<"a","b">>)]))),
    Outcome("response", NoExc, 200, Returned(JDict([content |-> JStr(<<"h","i">>)]))),
    Outcome("response", NoExc, 200, Returned(JDict([content |-> JList(<<>>)]))),
    Outcome("response", NoExc, 200, Returned(JDict(<<>>))),
    Outcome("response", NoExc, 200, Returned(JList(<<>>))),
    Outcome("response", NoExc, 200, Returned(JStr(<<"o","k">>))),
    Outcome("response", NoExc, 200, Returned(JNull)) >>

\* the names query_model is called with: the four providers and others
QueryProviders == {"openai", "anthropic", "mistral", "deepseek", "gemini", ""}

\* one call of query_model
InitQuery ==
    /\ \E p \in QueryProviders : \E i \in 1..Len(TransportOutcomes) :
          call = [provider_name |-> p, outcome |-> TransportOutcomes[i]]
    /\ responses = <<>>
    /\ judgments = <<>>
    /\ policy_limited_responses = <<>>
    /\ uncertain_responses = <<>>
    /\ result = NoResult
    /\ pc = "call"
    /\ status = 0
    /\ normalized = <<>>
    /\ config_file = NoFile
    /\ discovery = Idle

\* responses[provider] = query_model(provider, structured_query)
QueryCall ==
    /\ pc = "call"
    /\ responses' = Append(responses, query_model(call.provider_name, call.outcome))
    /\ pc' = "called"
    /\ UNCHANGED <<judgments, policy_limited_responses, uncertain_responses,
                   result, status, call, normalized,
                   config_file, discovery>>

NextQuery == QueryCall

SpecQuery == InitQuery /\ [][NextQuery]_vars

\* analyze_responses applied to a dict of up to MaxOrder entries with any
\* query results, inserted in the order of ProviderNames
InitOrder ==
    /\ \E n \in 0..MaxOrder : \E rs \in [1..n -> QueryResults] :
          responses = [i \in 1..n |->
                          Response(ProviderNames[i], rs[i].success, rs[i].content)]
    /\ judgments = <<>>
    /\ policy_limited_responses = <<>>
    /\ uncertain_responses = <<>>
    /\ result = NoResult
    /\ pc = "analyze"
    /\ status = 0
    /\ call = NoCall
    /\ normalized = <<>>
    /\ config_file = NoFile
    /\ discovery = Idle

NextOrder == AnalyzeResponses \/ AskRespond

SpecOrder == InitOrder /\ [][NextOrder]_vars

\* the model id discover_latest_models finds for a provider that answers
DiscoveredId ==
    [openai    |-> "gpt-latest",
     anthropic |-> "claude-latest",
     mistral   |-> "mistral-latest",
     deepseek  |-> "deepseek-latest"]

\* a 200 response in the shape the provider's response path expects
HealthyOutcome(provider_name) ==
    Outcome("response", NoExc, 200,
            Returned(IF provider_name = "anthropic"
                     THEN MessagesBody(JStr(<<"T","R","U","E">>))
                     ELSE ChatBody(JStr(<<"T","R","U","E">>))))

\* a request thread about to call query_model for a provider that answers,
\* next to the background job, on a fresh /tmp
InitConfig ==
    /\ \E p \in DOMAIN providers :
          call = [provider_name |-> p, outcome |-> HealthyOutcome(p)]
    /\ responses = <<>>
    /\ judgments = <<>>
    /\ policy_limited_responses = <<>>
    /\ uncertain_responses = <<>>
    /\ result = NoResult
    /\ pc = "call"
    /\ status = 0
    /\ normalized = <<>>
    /\ config_file = NoFile
    /\ discovery = Idle

\* run_model_discovery: discover_latest_models finds the ids of any subset
\* of the providers; save_model_config is called unless that subset is empty
RunModelDiscovery ==
    /\ discovery.pc = "idle"
    /\ \E found \in SUBSET DOMAIN providers :
          discovery' = IF found = {} THEN Idle
                       ELSE [pc |-> "open",
                             models |-> [p \in found |-> DiscoveredId[p]]]
    /\ UNCHANGED <<responses, judgments, policy_limited_responses,
                   uncertain_responses, result, pc, status, call, normalized,
                   config_file>>

\* save_model_config: open("/tmp/model_config.json", "w") truncates the file
OpenConfigFile ==
    /\ discovery.pc = "open"
    /\ config_file' = ConfigFile(TRUE, FALSE, <<>>)
    /\ discovery' = [discovery EXCEPT !.pc = "dump"]
    /\ UNCHANGED <<responses, judgments, policy_limited_responses,
                   uncertain_responses, result, pc, status, call, normalized>>

\* save_model_config: json.dump and the close of the with block write the
\* discovered providers, and only those
DumpConfig ==
    /\ discovery.pc = "dump"
    /\ config_file' = ConfigFile(TRUE, TRUE, discovery.models)
    /\ discovery' = Idle
    /\ UNCHANGED <<responses, judgments, policy_limited_responses,
                   uncertain_responses, result, pc, status, call, normalized>>

\* query_model on the request thread: get_provider_config reads the config
\* file as it is at that moment, then the provider is queried
QueryWithConfig ==
    /\ pc = "call"
    /\ LET loaded  == load_model_config(config_file)
           outcome == IF loaded.outcome = "raised"
                      THEN Outcome("config", loaded.value, 0, NotJSON)
                      ELSE call.outcome
       IN  responses' = Append(responses, query_model(call.provider_name, outcome))
    /\ pc' = "called"
    /\ UNCHANGED <<judgments, policy_limited_responses, uncertain_responses,
                   result, status, call, normalized, config_file, discovery>>

NextConfig == RunModelDiscovery \/ OpenConfigFile \/ DumpConfig \/ QueryWithConfig

SpecConfig == InitConfig /\ [][NextConfig]_vars
(* ---------------------------- properties -------------------------------- *)

\* analyze_responses has run on responses
Analyzed == pc \in {"respond", "done"}

HasReturned == result.outcome = "returned"

\* the number of providers the loop labelled with label
CountOf(label) == Cardinality({m \in DOMAIN judgments : judgments[m] = label})

\* n: the number of substantive judgments
SubstantiveCount == CountOf("TRUE") + CountOf("FALSE") + CountOf("UNCERTAIN")

\* the entries of responses that are successful with a non-empty content
Answered == {i \in 1..Len(responses) :
                /\ responses[i].success
                /\ responses[i].content # None
                /\ Len(responses[i].content) > 0}

\* the entries that answered without matching an opt-out pattern
NotOptOut == {i \in Answered :
                 /\ ~ detect_recusal(responses[i].content)
                 /\ ~ detect_policy_limitation(responses[i].content)}

InList(m, list) == \E k \in 1..Len(list) : list[k] = m

\* word occurs in s as a whole word: no letter, digit or underscore next to it
HasWholeWord(s, word) ==
    \E i \in 1..Len(s) :
        /\ i + Len(word) - 1 <= Len(s)
        /\ SubSeq(s, i, i + Len(word) - 1) = word
        /\ (i = 1 \/ ~ IsWordChar(s[i - 1]))
        /\ (i + Len(word) - 1 = Len(s) \/ ~ IsWordChar(s[i + Len(word)]))

HasSubstring(s, piece) ==
    \E i \in 1..Len(s) :
        i + Len(piece) - 1 <= Len(s) /\ SubSeq(s, i, i + Len(piece) - 1) = piece

\* s has an occurrence of token that neither "NOT " nor "ISN'T " precedes
HasUnnegated(s, token) ==
    \E i \in 1..Len(s) :
        /\ i + Len(token) - 1 <= Len(s)
        /\ SubSeq(s, i, i + Len(token) - 1) = token
        /\ ~ (i > 4 /\ SubSeq(s, i - 4, i - 1) = <<"N","O","T"," ">>)
        /\ ~ (i > 6 /\ SubSeq(s, i - 6, i - 1) = <<"I","S","N","'","T"," ">>)

\* C1: when no provider yields a substantive judgment, analyze_responses
\* returns verdict UNCERTAIN with confidence 0, VERY LOW, without raising.
C1_ZeroSubstantiveReturns ==
    (Analyzed /\ SubstantiveCount = 0) =>
        /\ HasReturned
        /\ result.value.verdict = "UNCERTAIN"
        /\ result.value.confidence_percentage = 0
        /\ result.value.confidence_level = "VERY LOW"

\* C2: a returned verdict is TRUE, FALSE or UNCERTAIN, never RECUSE or
\* POLICY_LIMITED, whatever labels the providers got.
C2_VerdictThreeWay ==
    HasReturned => result.value.verdict \in {"TRUE", "FALSE", "UNCERTAIN"}

\* a result returned although opt-out labels outnumber every other label
C2_Witness ==
    /\ HasReturned
    /\ CountOf("RECUSE") >= 2
    /\ CountOf("POLICY_LIMITED") >= 1
    /\ CountOf("RECUSE") > SubstantiveCount

\* C3: the returned confidence_percentage is an integer between 0 and 100,
\* also when policy-limited providers outnumber the substantive ones.
C3_ConfidenceRange ==
    HasReturned =>
        /\ result.value.confidence_percentage \in Int
        /\ 0 <= result.value.confidence_percentage
        /\ result.value.confidence_percentage <= 100

\* a TRUE or FALSE verdict with more policy-limited than substantive providers
C3_Witness ==
    /\ HasReturned
    /\ result.value.verdict \in {"TRUE", "FALSE"}
    /\ Len(result.value.policy_limited_responses) > SubstantiveCount
    /\ CountOf("UNCERTAIN") = 0

\* C4: the keys of model_judgments are exactly the providers whose response
\* is successful with a non-empty content, each with one of the five labels.
C4_JudgmentKeys ==
    Analyzed =>
        /\ DOMAIN judgments = {responses[i].model : i \in Answered}
        /\ \A m \in DOMAIN judgments :
              judgments[m] \in {"TRUE", "FALSE", "UNCERTAIN", "RECUSE",
                                "POLICY_LIMITED"}
        /\ HasReturned => result.value.model_judgments = judgments

\* a returned result for a dict with a failed, an empty and an answered entry
C4_Witness ==
    /\ HasReturned
    /\ \E i \in 1..Len(responses) : ~ responses[i].success
    /\ \E i \in 1..Len(responses) :
          responses[i].success /\ responses[i].content = <<>>
    /\ Cardinality(DOMAIN result.value.model_judgments) = Len(responses) - 2

\* C5 as stated: a response with "paradox" anywhere in it, in any letter
\* case and also inside a longer word, is labelled RECUSE.
C5_ParadoxSubstringRecuses ==
    Analyzed =>
        \A i \in Answered :
            HasSubstring(lower(responses[i].content), <<"p","a","r","a","d","o","x">>)
                => (/\ responses[i].model \in DOMAIN judgments
                    /\ judgments[responses[i].model] = "RECUSE")

\* C5 amended: a response in which "paradox" occurs as a whole word, in any
\* letter case, is labelled RECUSE whatever TRUE or FALSE tokens surround it.
C5_ParadoxWordRecuses ==
    Analyzed =>
        \A i \in Answered :
            HasWholeWord(lower(responses[i].content), <<"p","a","r","a","d","o","x">>)
                => (/\ responses[i].model \in DOMAIN judgments
                    /\ judgments[responses[i].model] = "RECUSE"
                    /\ ~ InList(responses[i].model, policy_limited_responses)
                    /\ ~ InList(responses[i].model, uncertain_responses))

\* a capitalised whole word Paradox next to an un-negated FALSE, labelled RECUSE
C5_Witness ==
    /\ Analyzed
    /\ \E i \in Answered :
          /\ HasWholeWord(responses[i].content, <<"P","a","r","a","d","o","x">>)
          /\ HasUnnegated(upper(responses[i].content), <<"F","A","L","S","E">>)
          /\ judgments[responses[i].model] = "RECUSE"

\* C6: negation is judged per occurrence: a response without opt-out pattern
\* and uncertainty phrase is labelled FALSE when some occurrence of FALSE is
\* not preceded by "NOT " or "ISN'T ", and TRUE when no occurrence of FALSE
\* but some occurrence of TRUE is.
C6_NegationPerOccurrence ==
    Analyzed =>
        \A i \in NotOptOut :
            LET content == upper(responses[i].content)
                label   == judgments[responses[i].model]
            IN  ~ uncertain_flag(lower(responses[i].content)) =>
                  /\ HasUnnegated(content, <<"F","A","L","S","E">>) => label = "FALSE"
                  /\ (~ HasUnnegated(content, <<"F","A","L","S","E">>)
                      /\ HasUnnegated(content, <<"T","R","U","E">>)) => label = "TRUE"

\* C7: a response without opt-out pattern in which an uncertainty phrase
\* occurs is labelled UNCERTAIN, also when FALSE or TRUE is asserted, and its
\* provider is recorded in uncertain_responses.
C7_UncertaintyOverrides ==
    Analyzed =>
        \A i \in NotOptOut :
            (\E p \in 1..Len(uncertainty_patterns) :
                HasSubstring(lower(responses[i].content), uncertainty_patterns[p]))
            => (/\ judgments[responses[i].model] = "UNCERTAIN"
                /\ InList(responses[i].model, uncertain_responses)
                /\ HasReturned
                /\ InList(responses[i].model, result.value.uncertain_responses))

\* an uncertainty phrase next to an asserted FALSE, labelled UNCERTAIN
C7_Witness ==
    /\ Analyzed
    /\ \E i \in NotOptOut :
          /\ HasSubstring(lower(responses[i].content), <<"u","n","c","l","e","a","r">>)
          /\ HasUnnegated(upper(responses[i].content), <<"F","A","L","S","E">>)
          /\ ~ HasSubstring(upper(responses[i].content), <<"N","O","T"," ","F","A","L","S","E">>)
          /\ judgments[responses[i].model] = "UNCERTAIN"
          /\ InList(responses[i].model, uncertain_responses)

\* C8: a response without opt-out pattern always gets one of TRUE, FALSE,
\* UNCERTAIN and the analysis returns; without an asserted TRUE or FALSE and
\* without uncertainty phrase the label is UNCERTAIN.
C8_AmbiguityIsUncertain ==
    Analyzed =>
        \A i \in NotOptOut :
            LET content == upper(responses[i].content)
            IN  /\ responses[i].model \in DOMAIN judgments
                /\ judgments[responses[i].model] \in {"TRUE", "FALSE", "UNCERTAIN"}
                /\ HasReturned
                /\ (/\ ~ HasUnnegated(content, <<"F","A","L","S","E">>)
                    /\ ~ HasUnnegated(content, <<"T","R","U","E">>)
                    /\ ~ uncertain_flag(lower(responses[i].content)))
                   => judgments[responses[i].model] = "UNCERTAIN"

\* a text with no token, no uncertainty phrase and no opt-out, labelled UNCERTAIN
C8_Witness ==
    /\ Analyzed
    /\ \E i \in NotOptOut :
          /\ ~ HasSubstring(upper(responses[i].content), <<"F","A","L","S","E">>)
          /\ ~ HasSubstring(upper(responses[i].content), <<"T","R","U","E">>)
          /\ ~ HasSubstring(upper(responses[i].content), <<"U","N","C","E","R","T","A","I","N">>)
          /\ ~ uncertain_flag(lower(responses[i].content))
          /\ judgments[responses[i].model] = "UNCERTAIN"
          /\ result.value.verdict = "UNCERTAIN"

\* C9: with n >= 1 substantive judgments of which u are UNCERTAIN, u >= n/3
\* or u >= 2 makes the verdict UNCERTAIN whatever the other counts are.
C9_UncertainDominates ==
    (/\ Analyzed
     /\ SubstantiveCount >= 1
     /\ \/ 3 * CountOf("UNCERTAIN") >= SubstantiveCount
        \/ CountOf("UNCERTAIN") >= 2)
    => (HasReturned /\ result.value.verdict = "UNCERTAIN")

\* u = 2 is below n/3 and TRUE has the majority, yet the verdict is UNCERTAIN
C9_Witness ==
    /\ HasReturned
    /\ CountOf("UNCERTAIN") = 2
    /\ 3 * CountOf("UNCERTAIN") < SubstantiveCount
    /\ CountOf("TRUE") > CountOf("UNCERTAIN") + CountOf("FALSE")
    /\ result.value.verdict = "UNCERTAIN"

\* C10: equally many TRUE and FALSE labels, both more than none, make the
\* verdict UNCERTAIN, with or without UNCERTAIN, RECUSE, POLICY_LIMITED labels.
C10_TieIsUncertain ==
    (/\ Analyzed
     /\ CountOf("TRUE") = CountOf("FALSE")
     /\ CountOf("TRUE") > 0)
    => (HasReturned /\ result.value.verdict = "UNCERTAIN")

\* a tie without any UNCERTAIN label, next to a RECUSE and a POLICY_LIMITED
C10_Witness ==
    /\ HasReturned
    /\ CountOf("TRUE") = CountOf("FALSE")
    /\ CountOf("TRUE") > 0
    /\ CountOf("UNCERTAIN") = 0
    /\ CountOf("RECUSE") > 0
    /\ CountOf("POLICY_LIMITED") > 0
    /\ result.value.verdict = "UNCERTAIN"

Abs(x) == IF x < 0 THEN 0 - x ELSE x

\* pct is an integer nearest to the fraction num/den
IsNearest(pct, num, den) == 2 * Abs(pct * den - num) <= den

\* C11: an UNCERTAIN verdict over n >= 1 substantive judgments, u of them
\* UNCERTAIN, has confidence_percentage min(70, 100u/n) rounded to the nearest
\* integer: at most 70, 67 and MEDIUM for two UNCERTAIN and one TRUE, and 0 for
\* a tie without UNCERTAIN labels.
C11_UncertainConfidence ==
    (HasReturned /\ result.value.verdict = "UNCERTAIN") =>
        LET u   == CountOf("UNCERTAIN")
            n   == SubstantiveCount
            pct == result.value.confidence_percentage
        IN  /\ n >= 1
            /\ IF 100 * u <= 70 * n THEN IsNearest(pct, 100 * u, n) ELSE pct = 70
            /\ pct <= 70
            /\ u = 0 => pct = 0
            /\ (u = 2 /\ n = 3) =>
                   (pct = 67 /\ result.value.confidence_level = "MEDIUM")

\* two UNCERTAIN and one TRUE: UNCERTAIN with 67, MEDIUM
C11_Witness ==
    /\ HasReturned
    /\ CountOf("UNCERTAIN") = 2
    /\ CountOf("TRUE") = 1
    /\ CountOf("FALSE") = 0
    /\ result.value.verdict = "UNCERTAIN"
    /\ result.value.confidence_percentage = 67
    /\ result.value.confidence_level = "MEDIUM"

\* C12: a TRUE or FALSE verdict with no policy-limited and no UNCERTAIN
\* provider has confidence_percentage 100c/n rounded to the nearest integer,
\* c the count of the verdict label; TRUE, TRUE, FALSE gives TRUE, 67, MEDIUM.
C12_PlainShare ==
    (/\ HasReturned
     /\ result.value.verdict \in {"TRUE", "FALSE"}
     /\ Len(result.value.policy_limited_responses) = 0
     /\ CountOf("UNCERTAIN") = 0) =>
        LET c   == CountOf(result.value.verdict)
            n   == SubstantiveCount
            pct == result.value.confidence_percentage
        IN  /\ IsNearest(pct, 100 * c, n)
            /\ (CountOf("TRUE") = 2 /\ CountOf("FALSE") = 1) =>
                   /\ result.value.verdict = "TRUE"
                   /\ pct = 67
                   /\ result.value.confidence_level = "MEDIUM"

\* TRUE, TRUE, FALSE: TRUE with 67, MEDIUM
C12_Witness ==
    /\ HasReturned
    /\ CountOf("TRUE") = 2
    /\ CountOf("FALSE") = 1
    /\ CountOf("UNCERTAIN") = 0
    /\ Len(result.value.policy_limited_responses) = 0
    /\ result.value.verdict = "TRUE"
    /\ result.value.confidence_percentage = 67
    /\ result.value.confidence_level = "MEDIUM"

\* the band of an integer percentage
BandOf(pct) ==
    IF pct >= 90 THEN "VERY HIGH"
    ELSE IF pct >= 70 THEN "HIGH"
    ELSE IF pct >= 50 THEN "MEDIUM"
    ELSE IF pct >= 30 THEN "LOW"
    ELSE "VERY LOW"

\* C13: the returned confidence_level is the band of the returned, rounded
\* confidence_percentage: VERY HIGH from 90, HIGH from 70, MEDIUM from 50,
\* LOW from 30, VERY LOW below.
C13_LevelIsBandOfRounded ==
    HasReturned =>
        result.value.confidence_level = BandOf(result.value.confidence_percentage)

\* C14: strip_markdown is idempotent: stripping a text that strip_markdown
\* returned gives that text again, whatever the raw text was.
C14_StripIdempotent ==
    Len(normalized) = 3 => normalized[3] = normalized[2]

\* the dict a finished call of query_model returned
Called == pc = "called"

Reply == responses[1]

\* the call got a 200 response with a JSON body
Is200JSON ==
    /\ call.outcome.stage = "response"
    /\ call.outcome.status_code = 200
    /\ call.outcome.json.outcome = "returned"

\* C15: query_model never raises: for every provider name and every
\* transport outcome it returns a dict; a failed call has success = false,
\* content = None and a non-empty error string; success = true only when
\* the content was extracted from a 200 JSON response.
C15_QueryNeverRaises ==
    Called =>
        /\ DOMAIN Reply = {"success", "content", "model", "error"}
        /\ Reply.model = call.provider_name
        /\ Reply.success => Is200JSON /\ call.provider_name \in DOMAIN providers
        /\ ~ Reply.success => Reply.content = None /\ Reply.error # ""

\* the responses dict with the same pairs inserted in the order perm
Reordered(perm) == [i \in 1..Len(responses) |-> responses[perm[i]]]

\* the providers in a list
Members(list) == {list[k] : k \in 1..Len(list)}

\* two outcomes of analyze_responses agree up to the order of the lists
SameAnalysis(a, b) ==
    /\ a.outcome = b.outcome
    /\ a.outcome = "returned" =>
          /\ a.value.verdict = b.value.verdict
          /\ a.value.confidence_percentage = b.value.confidence_percentage
          /\ a.value.confidence_level = b.value.confidence_level
          /\ a.value.model_judgments = b.value.model_judgments
          /\ Members(a.value.policy_limited_responses)
               = Members(b.value.policy_limited_responses)
          /\ Members(a.value.uncertain_responses)
               = Members(b.value.uncertain_responses)

\* C16: analyze_responses does not depend on insertion order: the same
\* provider-to-response pairs inserted in any other order give the same
\* verdict, confidence_percentage, confidence_level and per-provider labels,
\* and lists with the same providers.
C16_OrderIndependent ==
    Analyzed =>
        \A perm \in Permutations(1..Len(responses)) :
            LET other == analysis_loop(Reordered(perm))
            IN  /\ SameAnalysis(result, aggregate(other))
                /\ other.judgments = judgments
                /\ Members(other.policy_limited_responses) = Members(policy_limited_responses)
                /\ Members(other.uncertain_responses) = Members(uncertain_responses)

\* a returned analysis whose policy_limited_responses come in another
\* sequence when the dict is filled in another order
C16_Witness ==
    /\ HasReturned
    /\ Len(policy_limited_responses) = 2
    /\ \E perm \in Permutations(1..Len(responses)) :
          analysis_loop(Reordered(perm)).policy_limited_responses
              # policy_limited_responses

\* the text the single provider of a text analysis answered with
TheText == responses[1].content

\* the label the loop gave it
TheLabel == judgments["openai"]

\* C17: the opt-out checks run in the order recusal, policy limitation,
\* before the TRUE/FALSE classifier: a text matching a recusal and a policy
\* pattern is labelled RECUSE and not added to policy_limited_responses; a
\* text matching only a policy pattern is labelled POLICY_LIMITED and added
\* to it; neither gets a TRUE, FALSE or UNCERTAIN label.
C17_OptOutOrder ==
    (Analyzed /\ TheText # <<>>) =>
        LET recusal == detect_recusal(TheText)
            policy  == detect_policy_limitation(TheText)
        IN  /\ (recusal /\ policy) =>
                  /\ TheLabel = "RECUSE"
                  /\ ~ InList("openai", policy_limited_responses)
            /\ (~ recusal /\ policy) =>
                  /\ TheLabel = "POLICY_LIMITED"
                  /\ policy_limited_responses = <<"openai">>
            /\ (recusal \/ policy) =>
                  /\ TheLabel \notin {"TRUE", "FALSE", "UNCERTAIN"}
                  /\ uncertain_responses = <<>>

\* "Paradox policy_limited" matches a pattern of either kind: RECUSE
C17_Witness ==
    /\ Analyzed
    /\ TheText = <<"P","a","r","a","d","o","x"," ","p","o","l","i","c","y","_","l","i","m","i","t","e","d">>
    /\ detect_recusal(TheText)
    /\ detect_policy_limitation(TheText)
    /\ TheLabel = "RECUSE"
    /\ policy_limited_responses = <<>>

\* C18: FALSE takes precedence over TRUE: a text without opt-out pattern
\* and without uncertainty phrase in which FALSE occurs and neither
\* "NOT FALSE" nor "ISN'T FALSE" occurs is labelled FALSE, whether TRUE is
\* absent, occurs only negated or occurs un-negated.
C18_FalsePrecedence ==
    Analyzed =>
        \A i \in NotOptOut :
            LET content == upper(responses[i].content)
            IN  (/\ HasSubstring(content, <<"F","A","L","S","E">>)
                 /\ ~ HasSubstring(content, <<"N","O","T"," ","F","A","L","S","E">>)
                 /\ ~ HasSubstring(content, <<"I","S","N","'","T"," ","F","A","L","S","E">>)
                 /\ \A p \in 1..Len(uncertainty_patterns) :
                       ~ HasSubstring(lower(responses[i].content),
                                      uncertainty_patterns[p]))
                => (/\ judgments[responses[i].model] = "FALSE"
                    /\ ~ InList(responses[i].model, uncertain_responses)
                    /\ HasReturned
                    /\ result.value.verdict = "FALSE")

\* "FALSE true": FALSE next to an un-negated TRUE, labelled FALSE
C18_Witness ==
    /\ Analyzed
    /\ TheText = <<"F","A","L","S","E"," ","t","r","u","e">>
    /\ HasUnnegated(upper(TheText), <<"T","R","U","E">>)
    /\ 1 \in NotOptOut
    /\ TheLabel = "FALSE"

\* the quoted sentence, TRUE only negated, labelled FALSE
C18_SentenceLabelledFalse ==
    (Analyzed /\ TheText = <<"T","h","e"," ","a","n","s","w","e","r"," ","i","s"," ","F","A","L","S","E",","," ","t","h","i","s"," ","i","s"," ","n","o","t"," ","t","r","u","e",".">>)
        => (TheLabel = "FALSE" /\ ~ HasUnnegated(upper(TheText), <<"T","R","U","E">>))

\* C19: with t, f, u the TRUE, FALSE and UNCERTAIN counts and n their sum,
\* the verdict is TRUE exactly when n >= 1, u < n/3, u < 2 and t > f, FALSE
\* exactly when n >= 1, u < n/3, u < 2 and f > t, and UNCERTAIN otherwise;
\* where the highest count is selected it is never UNCERTAIN, and never a
\* tie of TRUE and FALSE that ends as TRUE.
C19_VerdictExact ==
    Analyzed =>
        LET t        == CountOf("TRUE")
            f        == CountOf("FALSE")
            u        == CountOf("UNCERTAIN")
            n        == SubstantiveCount
            selected == n >= 1 /\ 3 * u < n /\ u < 2
            verdict  == majority_verdict(judgments)
            counts   == [label \in {"TRUE", "FALSE", "UNCERTAIN"} |-> CountOf(label)]
        IN  /\ verdict = "TRUE" <=> (selected /\ t > f)
            /\ verdict = "FALSE" <=> (selected /\ f > t)
            /\ verdict \in {"TRUE", "FALSE", "UNCERTAIN"}
            /\ HasReturned <=> n >= 1
            /\ HasReturned => result.value.verdict = verdict
            /\ selected => most_common(counts) # "UNCERTAIN"
            /\ (selected /\ t = f) => verdict = "UNCERTAIN"

\* one UNCERTAIN among at least four labels, more TRUE than FALSE: TRUE
C19_Witness ==
    /\ HasReturned
    /\ CountOf("UNCERTAIN") = 1
    /\ SubstantiveCount >= 4
    /\ CountOf("TRUE") > CountOf("FALSE")
    /\ CountOf("FALSE") >= 1
    /\ result.value.verdict = "TRUE"

\* c0: the confidence of a TRUE or FALSE verdict without the penalty, from
\* the c agreeing among n substantive labels and the p policy-limited providers
Unpenalised(c, n, p) ==
    IF n - p > 0 THEN FracMin(Frac(100, 1), Frac(100 * c, n - p))
    ELSE Frac(90 * c, n)

\* C20: for a TRUE or FALSE verdict with u >= 1 UNCERTAIN labels among the n
\* substantive ones the confidence before rounding is max(40, c0 - 30*u/n),
\* c0 being the confidence without the penalty; with u = 0 it is c0, with
\* neither penalty nor floor. The result carries its rounding and its level.
C20_UncertaintyPenalty ==
    (HasReturned /\ result.value.verdict \in {"TRUE", "FALSE"}) =>
        LET u  == CountOf("UNCERTAIN")
            n  == SubstantiveCount
            c0 == Unpenalised(CountOf(result.value.verdict), n,
                              Len(policy_limited_responses))
            expected == IF u > 0
                        THEN FracMax(Frac(40, 1), FracSub(c0, Frac(30 * u, n)))
                        ELSE c0
        IN  /\ result.value.confidence_percentage = round(expected)
            /\ result.value.confidence_level = confidence_level_of(expected)
            /\ u > 0 => result.value.confidence_percentage >= 40

\* TRUE, TRUE, FALSE, UNCERTAIN and four policy-limited providers:
\* 45 - 7.5 is raised to the floor, 40 and LOW
C20_Witness ==
    /\ HasReturned
    /\ result.value.verdict = "TRUE"
    /\ CountOf("TRUE") = 2
    /\ CountOf("FALSE") = 1
    /\ CountOf("UNCERTAIN") = 1
    /\ Len(policy_limited_responses) = 4
    /\ result.value.confidence_percentage = 40
    /\ result.value.confidence_level = "LOW"

\* the responses dict without its i-th entry
Without(i) ==
    [k \in 1..(Len(responses) - 1) |->
        IF k < i THEN responses[k] ELSE responses[k + 1]]

\* the responses dict with one more provider
With(success, content) ==
    Append(responses, Response(ProviderNames[Len(responses) + 1], success, content))

\* the entries the loop skipped or labelled RECUSE, resp. POLICY_LIMITED
Unlabelled == {i \in 1..Len(responses) : responses[i].model \notin DOMAIN judgments}

LabelledAs(label) ==
    {i \in 1..Len(responses) :
        /\ responses[i].model \in DOMAIN judgments
        /\ judgments[responses[i].model] = label}

\* the same outcome and, if returned, the same verdict
SameVerdict(a, b) ==
    /\ a.outcome = b.outcome
    /\ a.outcome = "returned" => a.value.verdict = b.value.verdict

\* if returned, the same confidence_percentage and confidence_level
SameConfidence(a, b) ==
    (a.outcome = "returned" /\ b.outcome = "returned") =>
        /\ a.value.confidence_percentage = b.value.confidence_percentage
        /\ a.value.confidence_level = b.value.confidence_level

\* C21: removing or adding a provider that failed, returned no content or
\* is labelled RECUSE or POLICY_LIMITED never changes the verdict; if it is
\* not the POLICY_LIMITED one, confidence_percentage and confidence_level
\* stay as well.
C21_OnlySubstantiveCounts ==
    Analyzed =>
        /\ \A i \in Unlabelled \cup LabelledAs("RECUSE") :
              LET other == analyze_responses(Without(i))
              IN  SameVerdict(result, other) /\ SameConfidence(result, other)
        /\ \A i \in LabelledAs("POLICY_LIMITED") :
              SameVerdict(result, analyze_responses(Without(i)))
        /\ \A content \in {None, <<>>, <<"R","E","C","U","S","E">>} : \A success \in BOOLEAN :
              LET other == analyze_responses(With(success, content))
              IN  SameVerdict(result, other) /\ SameConfidence(result, other)
        /\ SameVerdict(result, analyze_responses(With(TRUE, <<"P","O","L","I","C","Y","_","L","I","M","I","T","E","D">>)))

\* a returned TRUE or FALSE verdict over failed, recused and policy-limited
\* providers, where dropping the policy-limited one changes the percentage
C21_Witness ==
    /\ HasReturned
    /\ result.value.verdict \in {"TRUE", "FALSE"}
    /\ Unlabelled # {}
    /\ LabelledAs("RECUSE") # {}
    /\ \E i \in LabelledAs("POLICY_LIMITED") :
          analyze_responses(Without(i)).value.confidence_percentage
              # result.value.confidence_percentage

\* C22: a policy-limited provider never makes a TRUE or FALSE result more
\* confident: the confidence_percentage is not above the one of the same
\* response set without one of its POLICY_LIMITED providers, and it is 100
\* only if every substantive label equals the verdict.
C22_PolicyNeverRaisesConfidence ==
    (HasReturned /\ result.value.verdict \in {"TRUE", "FALSE"}) =>
        /\ \A i \in LabelledAs("POLICY_LIMITED") :
              LET fewer == analyze_responses(Without(i))
              IN  /\ fewer.outcome = "returned"
                  /\ result.value.confidence_percentage
                        <= fewer.value.confidence_percentage
        /\ result.value.confidence_percentage = 100 =>
              CountOf(result.value.verdict) = SubstantiveCount

\* C23: a TRUE or FALSE verdict comes with a confidence_percentage of at
\* least 40 and a confidence_level other than VERY LOW, whatever the numbers
\* of substantive, policy-limited, recused and failed providers.
C23_DecidedIsNotVeryLow ==
    (HasReturned /\ result.value.verdict \in {"TRUE", "FALSE"}) =>
        /\ result.value.confidence_percentage >= 40
        /\ result.value.confidence_level \in {"LOW", "MEDIUM", "HIGH", "VERY HIGH"}

\* FALSE, FALSE, TRUE, UNCERTAIN outnumbered by policy-limited providers:
\* FALSE at the lowest confidence, 40 and LOW
C23_Witness ==
    /\ HasReturned
    /\ result.value.verdict = "FALSE"
    /\ CountOf("UNCERTAIN") = 1
    /\ Len(policy_limited_responses) >= SubstantiveCount
    /\ result.value.confidence_percentage = 40
    /\ result.value.confidence_level = "LOW"

\* C24: between model-discovery runs get_provider_config(p)["model_id"] is
\* a model id, not None, for each of the four providers, also for one the
\* latest run did not discover.
C24_ModelIdKnown ==
    discovery.pc = "idle" =>
        LET loaded == load_model_config(config_file)
        IN  /\ loaded.outcome = "returned"
            /\ \A p \in DOMAIN providers : model_id(p, loaded.value).t = "str"

\* C25: a query_model call running next to the background job's
\* save_model_config never fails because of the config file: under every
\* interleaving of the rewrite with the read the reader gets a complete
\* config, so that the call to a provider that answers succeeds.
C25_QueryNeverSeesBrokenConfig ==
    Called => Reply.success

====
